---- MODULE Spec2Model ----
(***************************************************************************)
(* A model of fckloud: the node address reconciliation of crates/kubem     *)
(* (Handle: refresh, apply_addrs, remove_unapplied, apply_patch), the      *)
(* driver cycle of crates/cli (cmd_run.rs) around it, the trust factor     *)
(* arithmetic of crates/ndhcp (trust_factor.rs) and the confirmation run   *)
(* of crates/ndhcp (manager.rs, address.rs).                               *)
(***************************************************************************)
EXTENDS Integers, Sequences, FiniteSets, TLC

VARIABLES
    \* ---- the cluster object (Node.status.addresses), crates/kubem
    node,                 \* the live address list of the node
    \* ---- kubem::Handle
    dry_run,              \* Handle.dry_run
    external_ips_were,    \* Handle.external_ips_were
    external_ips_added,   \* Handle.external_ips_added
    non_external_ips,     \* Handle.non_external_ips
    \* ---- the driver cycle (cli::cmd_run)
    remove_unstaged,      \* the strict / purge flag
    staged,               \* addresses staged for the pending apply()
    todo,                 \* staged addresses apply() has still to hand to apply_addrs
    pc,                   \* "idle" | "applying" | "purged" | "halted"
    result,               \* outcome of the last operation
    \* ---- history of the run, read by the properties only
    patches,              \* patch calls issued by the current apply()
    last_read,            \* the address list returned by the last live read
    cycle,                \* the apply() cycles: n begun; E, S the ExternalIPs and
                          \* the staged set at the start of the current one;
                          \* again: S is the staged set of the cycle before,
                          \* which issued prevPatches patch calls
    ext_writes,           \* writes made to the node by other actors
    removed,              \* what remove_unapplied returned to the current apply()
    statuses,             \* the AddrStatus report the current apply() is building
    reported_new,         \* history: the addresses some apply() has reported New
    handle_log,           \* history: the calls made on the Handle directly
    \* ---- ndhcp::TrustFactorAuthority
    custom,               \* TrustFactorAuthority.custom (0: no entry)
    providers,            \* the enabled providers handed to calc_confirmation_number
    confirmation_number,  \* what calc_confirmation_number returned (0: not called)
    tf_pc,                \* "off" | "ready" | "done" | "panicked"
    \* ---- ndhcp::Manager and its run
    items,                \* Manager.items: [iface, addr, confirmations]
    run_pc,               \* "off" | "args" | "setup_failed" | "new" | "created" |
                          \* "failed" | "running" | "returned"
    threshold,            \* run's threshold after the clamp (0: not run)
    threshold_arg,        \* the threshold run was given (0: not run)
    item_pc,              \* per item: "idle" | "spawned" | "checking" | "done"
    outcome,              \* per item and provider: the state of the check task
    calls,                \* per item and provider: calls of check_public_ip
    warnings,             \* what apply_check_result has logged
    report,               \* what run returned: <<item, status>> pairs
    \* ---- address::kind applied to one address
    kind_in,              \* the address handed to kind (<<>>: none)
    kind_out,             \* what kind returned ("none": not called)
    \* ---- main_runtime and the command task it spawns
    command,              \* "none" | "Run" | "Test"
    task,                 \* "off" | "running" | "ok" | "err" | "panicked"
    shutdown_rx,          \* "open" | "err" (an error is queued) | "closed"
    ctrl_c,               \* SIGINT has been delivered
    main_pc,              \* "off" | "select" | "returned" | "aborted"
    exit_code             \* what main_runtime returned (-1: not returned)

vars == <<node, dry_run, external_ips_were, external_ips_added, non_external_ips,
          remove_unstaged, staged, todo, pc, result, patches, last_read,
          cycle, ext_writes, removed, statuses, reported_new, handle_log,
          custom, providers, confirmation_number, tf_pc,
          items, run_pc, threshold, threshold_arg, item_pc, outcome, calls,
          warnings, report,
          kind_in, kind_out,
          command, task, shutdown_rx, ctrl_c, main_pc, exit_code>>

kubem_vars == <<node, dry_run, external_ips_were, external_ips_added,
                non_external_ips, remove_unstaged, staged, todo, pc, result,
                patches, last_read, cycle, ext_writes,
                removed, statuses, reported_new, handle_log>>

tf_vars == <<custom, providers, confirmation_number, tf_pc>>

run_vars == <<items, run_pc, threshold, threshold_arg, item_pc, outcome, calls,
              warnings, report>>

kind_vars == <<kind_in, kind_out>>

main_vars == <<command, task, shutdown_rx, ctrl_c, main_pc, exit_code>>

----------------------------------------------------------------------------
(* Bounds of the model.                                                    *)

NumIps == 2             \* distinct IP addresses 1..NumIps
MaxNodeLen == 1         \* length of the node's address list at start
MaxExternalWrites == 1  \* writes by other actors in one behaviour
MaxCycles == 2          \* apply() cycles in one behaviour
MaxCalls == 3           \* calls made on the Handle directly in one behaviour
NumProviders == 4       \* provider identities 1..NumProviders (1 is HttpBin)

Ips == 1..NumIps

----------------------------------------------------------------------------
(* Node addresses.  An address text is <<ip, form>>: ip = 0 is a text that  *)
(* is no IP literal (a host name); form 0 is the canonical spelling that    *)
(* IpAddr::to_string prints, form 1 another spelling of the same address    *)
(* that IpAddr::from_str accepts (an IPv6 literal written without "::").    *)

TYPE_INTERNAL_IP == "InternalIP"
TYPE_EXTERNAL_IP == "ExternalIP"
TYPE_HOSTNAME == "Hostname"

NoIp == 0

NodeAddress(type, text) == [type_ |-> type, address |-> text]

\* IpAddr::from_str: the address a text spells, NoIp when it spells none.
from_str(text) == text[1]

\* IpAddr::to_string: the canonical spelling.
to_string(ip) == <<ip, 0>>

is_internal_ip(node_address) == node_address.type_ = TYPE_INTERNAL_IP

is_external_ip(node_address) == node_address.type_ = TYPE_EXTERNAL_IP

is_internal_external_ip(node_address) ==
    is_internal_ip(node_address) \/ is_external_ip(node_address)

parse_ip(node_address) ==
    IF is_internal_external_ip(node_address)
    THEN from_str(node_address.address)
    ELSE NoIp

new_node_address(ip, type) == NodeAddress(type, to_string(ip))

\* The entries a node's list is drawn from at start.
AddressPool ==
    {NodeAddress(TYPE_HOSTNAME, <<NoIp, 0>>),
     NodeAddress(TYPE_EXTERNAL_IP, <<NoIp, 0>>),
     NodeAddress(TYPE_EXTERNAL_IP, <<1, 1>>)}
    \cup {NodeAddress(TYPE_EXTERNAL_IP, to_string(ip)) : ip \in Ips}

SeqsUpTo(S, n) == UNION {[1..k -> S] : k \in 0..n}

Range(s) == {s[i] : i \in 1..Len(s)}

\* A BTreeSet<IpAddr> iterates in ascending order.
RECURSIVE SortedSeq(_)
SortedSeq(S) ==
    IF S = {} THEN <<>>
    ELSE LET m == CHOOSE x \in S : \A y \in S : x <= y
         IN <<m>> \o SortedSeq(S \ {m})

ExternalNodeAddresses(ips) ==
    LET s == SortedSeq(ips)
    IN [i \in 1..Len(s) |-> new_node_address(s[i], TYPE_EXTERNAL_IP)]

\* The parsed ExternalIP addresses of an address list.
ExternalIPs(addresses) ==
    {parse_ip(na) : na \in {x \in Range(addresses) :
                               is_external_ip(x) /\ parse_ip(x) # NoIp}}

\* The entries of an address list whose type is not ExternalIP, in order.
NonExternal(addresses) ==
    SelectSeq(addresses, LAMBDA na : ~is_external_ip(na))

----------------------------------------------------------------------------
(* kubem::Handle                                                           *)

\* refresh, lines 260-271: the live list split into the parsed ExternalIPs
\* and everything else.
RefreshWere(addresses) == ExternalIPs(addresses)

RefreshNonExternal(addresses) ==
    SelectSeq(addresses,
              LAMBDA na : ~(is_external_ip(na) /\ parse_ip(na) # NoIp))

\* refresh, lines 277-281: the two retain calls.
\* The applied set is kept as it is.
RefreshAddedKeepsAll(added, were) == added

RefreshAdded(added, were) == {ip \in added : ip \in were}

\* The foreign set keeps the applied addresses.
RefreshWereKeepsAll(were, added) == were

RefreshWereKept(were, added) == {ip \in were : ip \notin added}

\* A patch that the server persists whatever the dry run flag says.
apply_patch_persisting(new_addresses) == new_addresses

\* apply_patch: the list the node holds after a patch_status call that the
\* API server accepted; under dry run the server persists nothing.
apply_patch(new_addresses) ==
    IF dry_run THEN node ELSE new_addresses

\* apply_addrs sending the new address and the foreign ones only.
ApplyAddrsListDropsNonExternal(addr) ==
    <<new_node_address(addr, TYPE_EXTERNAL_IP)>>
        \o ExternalNodeAddresses(external_ips_were)

\* apply_addrs walking the ExternalIPs that are on the node now.
ApplyAddrsListLive(addr) ==
    (non_external_ips \o <<new_node_address(addr, TYPE_EXTERNAL_IP)>>)
        \o ExternalNodeAddresses(ExternalIPs(node) \ {addr})

\* apply_addrs, lines 214-219: the list sent for a new address.
ApplyAddrsList(addr) ==
    (non_external_ips \o <<new_node_address(addr, TYPE_EXTERNAL_IP)>>)
        \o ExternalNodeAddresses(external_ips_were)

\* A purge that sends the foreign addresses as well.
RemoveUnappliedListKeepingForeign ==
    (non_external_ips \o ExternalNodeAddresses(external_ips_added))
        \o ExternalNodeAddresses(external_ips_were)

\* remove_unapplied, lines 194-198: the list sent by a purge.
RemoveUnappliedList ==
    non_external_ips \o ExternalNodeAddresses(external_ips_added)

----------------------------------------------------------------------------
(* The state after Manager::get_handle: Handle::new has made its first     *)
(* refresh, nothing is staged.                                             *)

InitNodes == SeqsUpTo(AddressPool, MaxNodeLen)

NoCycle == [n |-> 0, E |-> {}, S |-> {}, again |-> FALSE, prevPatches |-> 0]

\* No call has been made on the Handle.
NoLog == [n |-> 0, op |-> "new", arg |-> 0, applied |-> {}, purged |-> {},
          clean |-> TRUE]

\* An empty map<IpAddr, AddrStatus>.
NoStatuses == [ip \in {} |-> "New"]

TfIdle ==
    /\ custom = <<>>
    /\ providers = <<>>
    /\ confirmation_number = 0
    /\ tf_pc = "off"

KindIdle ==
    /\ kind_in = <<>>
    /\ kind_out = "none"

MainIdle ==
    /\ command = "none"
    /\ task = "off"
    /\ shutdown_rx = "open"
    /\ ctrl_c = FALSE
    /\ main_pc = "off"
    /\ exit_code = -1

RunIdle ==
    /\ items = <<>>
    /\ run_pc = "off"
    /\ threshold = 0
    /\ threshold_arg = 0
    /\ item_pc = <<>>
    /\ outcome = <<>>
    /\ calls = <<>>
    /\ warnings = {}
    /\ report = <<>>

InitKubem ==
    /\ node \in InitNodes
    /\ dry_run \in BOOLEAN
    /\ remove_unstaged \in BOOLEAN
    /\ external_ips_added = {}
    /\ external_ips_were = RefreshWereKept(RefreshWere(node), {})
    /\ non_external_ips = RefreshNonExternal(node)
    /\ staged = {}
    /\ todo = {}
    /\ pc = "idle"
    /\ result = "Ok"
    /\ patches = 0
    /\ last_read = node
    /\ cycle = NoCycle
    /\ ext_writes = 0
    /\ removed = <<>>
    /\ statuses = NoStatuses
    /\ reported_new = {}
    /\ handle_log = NoLog

Init ==
    /\ InitKubem
    /\ TfIdle
    /\ RunIdle
    /\ KindIdle
    /\ MainIdle

----------------------------------------------------------------------------
(* Handle::refresh.  The caches are cleared before the node is queried, so  *)
(* a failed query leaves them empty; the applied set is kept.              *)

RefreshOk ==
    LET were == RefreshWere(node)
        added == RefreshAdded(external_ips_added, were)
    IN /\ external_ips_added' = added
       /\ external_ips_were' = RefreshWereKept(were, added)
       /\ non_external_ips' = RefreshNonExternal(node)
       /\ last_read' = node
       /\ result' = "Ok"

RefreshErr ==
    /\ external_ips_were' = {}
    /\ non_external_ips' = <<>>
    /\ result' = "ErrCluster"
    /\ UNCHANGED <<external_ips_added, last_read>>

(* Handle::apply_addrs(addr).                                              *)

ApplyAddrsSkip(addr) ==
    /\ addr \in external_ips_added \/ addr \in external_ips_were
    /\ result' = "Ok"
    /\ UNCHANGED <<node, external_ips_added, patches>>

ApplyAddrsPatchOk(addr) ==
    /\ ~(addr \in external_ips_added \/ addr \in external_ips_were)
    /\ node' = apply_patch(ApplyAddrsList(addr))
    /\ external_ips_added' = external_ips_added \cup {addr}
    /\ patches' = patches + 1
    /\ result' = "Ok"

\* A failed patch whose address is recorded as applied all the same.
ApplyAddrsPatchErrRecorded(addr) ==
    /\ ~(addr \in external_ips_added \/ addr \in external_ips_were)
    /\ patches' = patches + 1
    /\ result' = "ErrCluster"
    /\ external_ips_added' = external_ips_added \cup {addr}
    /\ UNCHANGED node

ApplyAddrsPatchErr(addr) ==
    /\ ~(addr \in external_ips_added \/ addr \in external_ips_were)
    /\ patches' = patches + 1
    /\ result' = "ErrCluster"
    /\ UNCHANGED <<node, external_ips_added>>

(* Handle::remove_unapplied.                                               *)

\* A purge that returns the applied set.
RemoveUnappliedReturnApplied == SortedSeq(external_ips_added)

\* remove_unapplied, line 206: the foreign set of the cache, in the order
\* of the BTreeSet.
RemoveUnappliedReturn == SortedSeq(external_ips_were)

RemoveUnappliedOk ==
    /\ node' = apply_patch(RemoveUnappliedList)
    /\ patches' = patches + 1
    /\ result' = "Ok"
    /\ removed' = RemoveUnappliedReturn

RemoveUnappliedErr ==
    /\ patches' = patches + 1
    /\ result' = "ErrCluster"
    /\ UNCHANGED <<node, removed>>

----------------------------------------------------------------------------
(* The driver cycle: Args::job stages the confirmed addresses and calls     *)
(* apply(); Args::run ends the process on the first error (the "?" of       *)
(* lines 115 and 179).                                                     *)

StageAddress(ip) ==
    /\ pc = "idle"
    /\ cycle.n < MaxCycles
    /\ ip \notin staged
    /\ staged' = staged \cup {ip}
    /\ UNCHANGED <<node, dry_run, external_ips_were, external_ips_added,
                   non_external_ips, remove_unstaged, todo, pc, result,
                   patches, last_read, cycle, ext_writes, removed, statuses,
                   reported_new, handle_log, tf_vars, run_vars,
                   kind_vars, main_vars>>

\* The externals apply() walks: those of the node, under dry run those of the
\* cache.
WalkedExternals ==
    IF dry_run THEN external_ips_added \cup external_ips_were ELSE ExternalIPs(node)

\* Every staged address is reported New.
AddrStatusOfStagedIsNew(ip) ==
    IF ip \in staged THEN "New"
    ELSE IF remove_unstaged THEN "Removed" ELSE "Skipped"

\* Every external that is not staged is reported Removed.
AddrStatusOfAlwaysPurging(ip) ==
    IF ip \notin WalkedExternals THEN "New"
    ELSE IF ip \in staged THEN "Skipped"
    ELSE "Removed"

\* The AddrStatus apply() reports for an address it considers: a staged
\* address that is not among the externals is New, an external that is
\* staged is Skipped, an external that is not staged is Removed in purge mode
\* and Skipped otherwise.
AddrStatusOf(ip) ==
    IF ip \notin WalkedExternals THEN "New"
    ELSE IF ip \in staged THEN "Skipped"
    ELSE IF remove_unstaged THEN "Removed" ELSE "Skipped"

\* The report of apply(): a status for every external and every staged address.
AddrReport ==
    [ip \in WalkedExternals \cup staged |-> AddrStatusOf(ip)]

\* An apply() that refuses nothing.
ApplyNeverRefused == FALSE

\* apply() with nothing staged and no purge requested is refused before
\* any call to the cluster.
ApplyRefused == staged = {} /\ ~remove_unstaged

ApplyBeginWith(history) ==
    /\ pc = "idle"
    /\ cycle.n < MaxCycles
    /\ IF ApplyRefused
       THEN /\ pc' = "halted"
            /\ result' = "ErrNothingStaged"
            /\ UNCHANGED <<todo, patches, cycle, statuses, reported_new>>
       ELSE /\ pc' = "applying"
            /\ result' = "Ok"
            /\ todo' = staged
            /\ patches' = 0
            /\ cycle' = [n |-> cycle.n + 1, E |-> ExternalIPs(node), S |-> staged,
                         again |-> cycle.n > 0 /\ staged = cycle.S,
                         prevPatches |-> patches]
            /\ statuses' = AddrReport
            /\ reported_new' = history
    /\ UNCHANGED <<node, dry_run, external_ips_were, external_ips_added,
                   non_external_ips, remove_unstaged, staged, last_read,
                   ext_writes, removed, handle_log, tf_vars, run_vars,
                   kind_vars, main_vars>>

\* The start of apply(), the history of New reports left alone.
ApplyBegin == ApplyBeginWith(reported_new)

\* The start of apply(), the addresses it reports New added to the history.
ApplyBeginRecording ==
    ApplyBeginWith(reported_new \cup
                   {ip \in DOMAIN AddrReport : AddrReport[ip] = "New"})

ApplyAddrs(addr) ==
    /\ pc = "applying"
    /\ addr \in todo
    /\ \/ ApplyAddrsSkip(addr) /\ todo' = todo \ {addr} /\ pc' = pc
       \/ ApplyAddrsPatchOk(addr) /\ todo' = todo \ {addr} /\ pc' = pc
       \/ ApplyAddrsPatchErr(addr) /\ todo' = todo /\ pc' = "halted"
    /\ UNCHANGED <<dry_run, external_ips_were, non_external_ips, remove_unstaged,
                   staged, last_read, cycle, ext_writes, removed, statuses,
                   reported_new, handle_log, tf_vars, run_vars,
                   kind_vars, main_vars>>

RemoveUnapplied ==
    /\ pc = "applying"
    /\ todo = {}
    /\ remove_unstaged
    /\ \/ RemoveUnappliedOk /\ pc' = "purged"
       \/ RemoveUnappliedErr /\ pc' = "halted"
    /\ UNCHANGED <<dry_run, external_ips_were, external_ips_added,
                   non_external_ips, remove_unstaged, staged, todo, last_read,
                   cycle, ext_writes, statuses, reported_new, handle_log,
                   tf_vars, run_vars, kind_vars, main_vars>>

\* Every mutation of the current apply() has been made.
AppliedAll ==
    \/ pc = "applying" /\ todo = {} /\ ~remove_unstaged
    \/ pc = "purged"

\* An end of apply() that leaves the staged set as it is.
ApplyFinishKeepingStaged ==
    /\ AppliedAll
    /\ staged' = staged
    /\ \/ RefreshOk /\ pc' = "idle"
       \/ RefreshErr /\ pc' = "halted"
    /\ cycle' = [cycle EXCEPT !.E = {}, !.again = FALSE, !.prevPatches = 0]
    /\ removed' = <<>>
    /\ statuses' = NoStatuses
    /\ UNCHANGED <<node, dry_run, remove_unstaged, todo, patches, ext_writes,
                   reported_new, handle_log, tf_vars, run_vars,
                   kind_vars, main_vars>>

\* The end of apply(): the staged set is cleared and the cache refreshed.
ApplyFinish ==
    /\ AppliedAll
    /\ staged' = {}
    /\ \/ RefreshOk /\ pc' = "idle"
       \/ RefreshErr /\ pc' = "halted"
    /\ cycle' = [cycle EXCEPT !.E = {}, !.again = FALSE, !.prevPatches = 0]
    /\ removed' = <<>>
    /\ statuses' = NoStatuses
    /\ UNCHANGED <<node, dry_run, remove_unstaged, todo, patches, ext_writes,
                   reported_new, handle_log, tf_vars, run_vars,
                   kind_vars, main_vars>>

----------------------------------------------------------------------------
(* Other writers of the Node object (the kubelet, an operator) may add an   *)
(* address or delete one.  The handle reads the node in refresh only and   *)
(* every patch replaces the whole list, so a write is placed after the     *)
(* refresh that ended the last cycle and before the next cycle's staging.  *)

WritePool ==
    {NodeAddress(TYPE_HOSTNAME, <<NoIp, 0>>)}
    \cup {NodeAddress(TYPE_EXTERNAL_IP, to_string(ip)) : ip \in Ips}

RemoveAt(s, i) == [j \in 1..(Len(s) - 1) |-> IF j < i THEN s[j] ELSE s[j + 1]]

ExternalWrite ==
    /\ pc = "idle"
    /\ staged = {}
    /\ ext_writes < MaxExternalWrites
    /\ \/ \E na \in WritePool : node' = Append(node, na)
       \/ \E i \in 1..Len(node) : node' = RemoveAt(node, i)
    /\ ext_writes' = ext_writes + 1
    /\ UNCHANGED <<dry_run, external_ips_were, external_ips_added,
                   non_external_ips, remove_unstaged, staged, todo, pc, result,
                   patches, last_read, cycle, removed, statuses, reported_new,
                   handle_log,
                   tf_vars, run_vars, kind_vars, main_vars>>

Next ==
    \/ \E ip \in Ips : StageAddress(ip)
    \/ ApplyBegin
    \/ \E addr \in Ips : ApplyAddrs(addr)
    \/ RemoveUnapplied
    \/ ApplyFinish

\* The handle alone on the node.
Spec == Init /\ [][Next]_vars

NextReport ==
    \/ \E ip \in Ips : StageAddress(ip)
    \/ ApplyBeginRecording
    \/ \E addr \in Ips : ApplyAddrs(addr)
    \/ RemoveUnapplied
    \/ ApplyFinish

\* The handle alone on the node, with the history of the addresses reported New.
SpecReport == Init /\ [][NextReport]_vars

----------------------------------------------------------------------------
(* The Handle called directly: refresh, apply_addrs and remove_unapplied in *)
(* any order, a failed call leaving the Handle to its caller.  handle_log   *)
(* keeps the number of calls, the last call and its argument, the addresses *)
(* apply_addrs has returned Ok for, the addresses the last remove_unapplied *)
(* took off the node with no refresh since, and whether every call so far   *)
(* was a successful apply_addrs or refresh.                                *)

HandleApplyAddrs(addr) ==
    /\ pc = "idle"
    /\ handle_log.n < MaxCalls
    /\ \/ ApplyAddrsSkip(addr)
       \/ ApplyAddrsPatchOk(addr)
       \/ ApplyAddrsPatchErr(addr)
    /\ handle_log' =
          [n |-> handle_log.n + 1, op |-> "apply_addrs", arg |-> addr,
           applied |-> IF result' = "Ok" THEN handle_log.applied \cup {addr}
                       ELSE handle_log.applied,
           purged |-> handle_log.purged,
           clean |-> handle_log.clean /\ result' = "Ok"]
    /\ UNCHANGED <<dry_run, external_ips_were, non_external_ips, remove_unstaged,
                   staged, todo, pc, last_read, cycle, ext_writes, removed,
                   statuses, reported_new, tf_vars, run_vars,
                   kind_vars, main_vars>>

HandleRemoveUnapplied ==
    /\ pc = "idle"
    /\ handle_log.n < MaxCalls
    /\ \/ RemoveUnappliedOk
       \/ RemoveUnappliedErr
    /\ handle_log' =
          [n |-> handle_log.n + 1, op |-> "remove_unapplied", arg |-> 0,
           applied |-> handle_log.applied,
           purged |-> IF result' = "Ok"
                      THEN ExternalIPs(node) \ ExternalIPs(node')
                      ELSE handle_log.purged,
           clean |-> FALSE]
    /\ UNCHANGED <<dry_run, external_ips_were, external_ips_added,
                   non_external_ips, remove_unstaged, staged, todo, pc,
                   last_read, cycle, ext_writes, statuses, reported_new,
                   tf_vars, run_vars, kind_vars, main_vars>>

HandleRefresh ==
    /\ pc = "idle"
    /\ handle_log.n < MaxCalls
    /\ \/ RefreshOk
       \/ RefreshErr
    /\ handle_log' =
          [n |-> handle_log.n + 1, op |-> "refresh", arg |-> 0,
           applied |-> handle_log.applied,
           purged |-> IF result' = "Ok" THEN {} ELSE handle_log.purged,
           clean |-> handle_log.clean /\ result' = "Ok"]
    /\ UNCHANGED <<node, dry_run, remove_unstaged, staged, todo, pc, patches,
                   cycle, ext_writes, removed, statuses, reported_new,
                   tf_vars, run_vars, kind_vars, main_vars>>

\* Handle::new, the driver of apply() not in use.
InitHandle ==
    /\ Init
    /\ ~remove_unstaged

NextHandle ==
    \/ \E addr \in Ips : HandleApplyAddrs(addr)
    \/ HandleRemoveUnapplied
    \/ HandleRefresh

\* The handle alone on the node, its operations called in any order.
SpecHandle == InitHandle /\ [][NextHandle]_vars

NextShared ==
    \/ \E ip \in Ips : StageAddress(ip)
    \/ ApplyBegin
    \/ \E addr \in Ips : ApplyAddrs(addr)
    \/ RemoveUnapplied
    \/ ApplyFinish
    \/ ExternalWrite

\* The handle and other writers of the node.
SpecShared == Init /\ [][NextShared]_vars

----------------------------------------------------------------------------
(* ndhcp::TrustFactorAuthority.  HttpProvider has the one variant HttpBin   *)
(* (provider 1); the further identities stand for variants added to the    *)
(* enum and are given the same default.                                    *)

LOW == 1
MED == 2
HIG == 3

HttpProviders == 1..NumProviders

\* Every factor passes.
is_valid_any(trust_factor) == TRUE

is_valid(trust_factor) == trust_factor \in {LOW, MED, HIG}

default_trust_factor(provider) == LOW

\* The default whatever was set.
trust_factor_default_only(provider) == default_trust_factor(provider)

trust_factor(provider) ==
    IF custom[provider] # 0 THEN custom[provider] ELSE default_trust_factor(provider)

\* COMPENSATION_FACTOR: f32 = 0.67 is the float 11240735 / 2^24.
COMPENSATION_FACTOR_MANTISSA == 11240735
F32_PRECISION == 24

RECURSIVE BitLen(_)
BitLen(n) == IF n = 0 THEN 0 ELSE 1 + BitLen(n \div 2)

\* n / 2^24 rounded to the nearest f32 (ties to even), as a multiple of 2^-24.
RoundF32(n) ==
    LET sh == BitLen(n) - F32_PRECISION
    IN IF sh <= 0 THEN n
       ELSE LET q == 2 ^ sh
                hi == n \div q
                lo == n % q
                up == lo * 2 > q \/ (lo * 2 = q /\ hi % 2 = 1)
            IN (IF up THEN hi + 1 ELSE hi) * q

\* trust_factor_total as f32 * COMPENSATION_FACTOR, in units of 2^-24.
Compensated(total) == RoundF32(total * COMPENSATION_FACTOR_MANTISSA)

F32Ceil(x) == (x + 2 ^ F32_PRECISION - 1) \div (2 ^ F32_PRECISION)

F32Floor(x) == x \div (2 ^ F32_PRECISION)

RECURSIVE SumSeq(_)
SumSeq(s) == IF s = <<>> THEN 0 ELSE Head(s) + SumSeq(Tail(s))

trust_factor_total(provs) ==
    SumSeq([i \in 1..Len(provs) |-> trust_factor(provs[i])])

\* The match without its arm for one provider.
calc_confirmation_number_discounted(provs) ==
    CASE Len(provs) = 2 -> F32Ceil(Compensated(trust_factor_total(provs)))
      [] OTHER -> F32Floor(Compensated(trust_factor_total(provs)))

\* The match rounding up for every count above one.
calc_confirmation_number_ceil(provs) ==
    CASE Len(provs) = 1 -> trust_factor_total(provs)
      [] OTHER -> F32Ceil(Compensated(trust_factor_total(provs)))

calc_confirmation_number(provs) ==
    CASE Len(provs) = 1 -> trust_factor_total(provs)
      [] Len(provs) = 2 -> F32Ceil(Compensated(trust_factor_total(provs)))
      [] Len(provs) >= 3 -> F32Floor(Compensated(trust_factor_total(provs)))

\* OfProviders::setup: the enabled providers are the variants that are not
\* disabled, in the order of the enum; at least one must be left.
EnabledLists ==
    {SortedSeq(ps) : ps \in (SUBSET HttpProviders) \ {{}}}

KubemIdle ==
    /\ node = <<>>
    /\ dry_run = FALSE
    /\ remove_unstaged = FALSE
    /\ external_ips_added = {}
    /\ external_ips_were = {}
    /\ non_external_ips = <<>>
    /\ staged = {}
    /\ todo = {}
    /\ pc = "off"
    /\ result = "Ok"
    /\ patches = 0
    /\ last_read = <<>>
    /\ cycle = NoCycle
    /\ ext_writes = 0
    /\ removed = <<>>
    /\ statuses = NoStatuses
    /\ reported_new = {}
    /\ handle_log = NoLog

InitTF ==
    /\ KubemIdle
    /\ KindIdle
    /\ MainIdle
    /\ custom = [p \in HttpProviders |-> 0]
    /\ providers \in EnabledLists
    /\ confirmation_number = 0
    /\ tf_pc = "ready"
    /\ RunIdle

\* set_trust_factor: asserts the factor valid, then overwrites the entry.
SetTrustFactor(provider, new_trust_factor) ==
    /\ tf_pc = "ready"
    /\ IF is_valid(new_trust_factor)
       THEN /\ custom' = [custom EXCEPT ![provider] = new_trust_factor]
            /\ tf_pc' = tf_pc
       ELSE /\ tf_pc' = "panicked"
            /\ custom' = custom
    /\ UNCHANGED <<providers, confirmation_number, kubem_vars, run_vars, kind_vars, main_vars>>

CalcConfirmationNumber ==
    /\ tf_pc = "ready"
    /\ confirmation_number' = calc_confirmation_number(providers)
    /\ tf_pc' = "done"
    /\ UNCHANGED <<custom, providers, kubem_vars, run_vars, kind_vars, main_vars>>

NextTF ==
    \/ \E provider \in HttpProviders, f \in 0..(HIG + 1) :
            SetTrustFactor(provider, f)
    \/ CalcConfirmationNumber

SpecTF == InitTF /\ [][NextTF]_vars

----------------------------------------------------------------------------
(* ndhcp::address.  An IPv4 address is its four octets, an IPv6 address    *)
(* its eight 16-bit segments; a network is its address, its prefix length  *)
(* and the kind it stands for.                                             *)

Kinds == {"Loopback", "Private", "Public", "Multicast", "Reserved"}

Ipv4Network(a, b, c, d, prefix, kind_) ==
    [ip |-> <<a, b, c, d>>, prefix |-> prefix, kind |-> kind_]

\* RESERVED_RAW of kind_ipv4, in the order of the table.
RESERVED_RAW ==
    << Ipv4Network(0, 0, 0, 0, 8, "Loopback"),
       Ipv4Network(10, 0, 0, 0, 8, "Private"),
       Ipv4Network(100, 64, 0, 0, 10, "Reserved"),
       Ipv4Network(127, 0, 0, 0, 8, "Loopback"),
       Ipv4Network(169, 254, 0, 0, 16, "Private"),
       Ipv4Network(172, 16, 0, 0, 12, "Private"),
       Ipv4Network(192, 0, 0, 0, 24, "Reserved"),
       Ipv4Network(192, 0, 2, 0, 24, "Reserved"),
       Ipv4Network(192, 88, 99, 0, 24, "Reserved"),
       Ipv4Network(192, 168, 0, 0, 16, "Private"),
       Ipv4Network(198, 18, 0, 0, 15, "Reserved"),
       Ipv4Network(198, 51, 100, 0, 24, "Reserved"),
       Ipv4Network(203, 0, 113, 0, 24, "Reserved"),
       Ipv4Network(224, 0, 0, 0, 4, "Multicast"),
       Ipv4Network(233, 252, 0, 0, 24, "Reserved"),
       Ipv4Network(240, 0, 0, 0, 4, "Reserved"),
       Ipv4Network(255, 255, 255, 255, 32, "Multicast") >>

\* The bits of octet k (1..4) that a prefix of the given length covers.
PrefixBits(prefix, k) ==
    LET rest == prefix - 8 * (k - 1)
    IN IF rest <= 0 THEN 0 ELSE IF rest >= 8 THEN 8 ELSE rest

\* Ipv4Network::contains: the address agrees with the network on its prefix.
contains(network, addr) ==
    \A k \in 1..4 :
        LET low == 2 ^ (8 - PrefixBits(network.prefix, k))
        IN addr[k] \div low = network.ip[k] \div low

\* The loop of kind_ipv4 from entry n on: the kind of the first network
\* that contains the address is returned, Public after the last entry.
RECURSIVE kind_ipv4_from(_, _)
kind_ipv4_from(addr, n) ==
    IF n > Len(RESERVED_RAW) THEN "Public"
    ELSE IF contains(RESERVED_RAW[n], addr) THEN RESERVED_RAW[n].kind
    ELSE kind_ipv4_from(addr, n + 1)

kind_ipv4(addr) == kind_ipv4_from(addr, 1)

Ipv6Network(a, b, c, d, e, f, g, h, prefix, kind_) ==
    [ip |-> <<a, b, c, d, e, f, g, h>>, prefix |-> prefix, kind |-> kind_]

\* RESERVED_RAW of kind_ipv6, in the order of the table; the segments are
\* written in decimal (ffff = 65535, 64 = 100, ff9b = 65435, 100 = 256,
\* 2001 = 8193, 20 = 32, db8 = 3512, 2002 = 8194, 3fff = 16383,
\* 5f00 = 24320, fc00 = 64512, fe80 = 65152, ff00 = 65280).
RESERVED_RAW_V6 ==
    << Ipv6Network(0, 0, 0, 0, 0, 0, 0, 0, 128, "Loopback"),
       Ipv6Network(0, 0, 0, 0, 0, 0, 0, 1, 128, "Loopback"),
       Ipv6Network(0, 0, 0, 0, 0, 65535, 0, 0, 96, "Reserved"),
       Ipv6Network(0, 0, 0, 0, 65535, 0, 0, 0, 96, "Reserved"),
       Ipv6Network(100, 65435, 0, 0, 0, 0, 0, 0, 96, "Reserved"),
       Ipv6Network(100, 65435, 1, 0, 0, 0, 0, 0, 4, "Reserved"),
       Ipv6Network(256, 0, 0, 0, 0, 0, 0, 0, 64, "Reserved"),
       Ipv6Network(8193, 0, 0, 0, 0, 0, 0, 0, 32, "Reserved"),
       Ipv6Network(8193, 32, 0, 0, 0, 0, 0, 0, 28, "Reserved"),
       Ipv6Network(8193, 3512, 0, 0, 0, 0, 0, 0, 32, "Reserved"),
       Ipv6Network(8194, 0, 0, 0, 0, 0, 0, 0, 16, "Reserved"),
       Ipv6Network(16383, 0, 0, 0, 0, 0, 0, 0, 20, "Reserved"),
       Ipv6Network(24320, 0, 0, 0, 0, 0, 0, 0, 16, "Reserved"),
       Ipv6Network(64512, 0, 0, 0, 0, 0, 0, 0, 7, "Private"),
       Ipv6Network(65152, 0, 0, 0, 0, 0, 0, 0, 10, "Private"),
       Ipv6Network(65280, 0, 0, 0, 0, 0, 0, 0, 8, "Multicast") >>

\* The bits of segment k (1..8) that a prefix of the given length covers.
PrefixBitsV6(prefix, k) ==
    LET rest == prefix - 16 * (k - 1)
    IN IF rest <= 0 THEN 0 ELSE IF rest >= 16 THEN 16 ELSE rest

\* Ipv6Network::contains: the address and the network's own address agree
\* under the mask of the prefix.
contains_v6(network, addr) ==
    \A k \in 1..8 :
        LET low == 2 ^ (16 - PrefixBitsV6(network.prefix, k))
        IN addr[k] \div low = network.ip[k] \div low

\* The loop of kind_ipv6 from entry n on.
RECURSIVE kind_ipv6_from(_, _)
kind_ipv6_from(addr, n) ==
    IF n > Len(RESERVED_RAW_V6) THEN "Public"
    ELSE IF contains_v6(RESERVED_RAW_V6[n], addr) THEN RESERVED_RAW_V6[n].kind
    ELSE kind_ipv6_from(addr, n + 1)

kind_ipv6(addr) == kind_ipv6_from(addr, 1)

\* IpAddr::V4 carries four octets, IpAddr::V6 eight segments.
is_ipv4(addr) == Len(addr) = 4

\* A local address never passes the gate of check_providers.
kind_always_public(addr) == "Public"

\* kind: the table of the address family is scanned.
kind(addr) == IF is_ipv4(addr) THEN kind_ipv4(addr) ELSE kind_ipv6(addr)

\* The addresses kind is tried on: every combination of the octets and
\* segments at which the tables change their answer, and of some between.
KindOctets1 == {0, 8, 10, 100, 126, 127, 128, 169, 172, 192, 198, 203, 223,
                224, 233, 239, 240, 255}
KindOctets2 == {0, 16, 18, 31, 32, 51, 63, 64, 88, 127, 128, 168, 252, 254, 255}
KindOctets3 == {0, 2, 99, 100, 113, 255}
KindOctets4 == {0, 1, 255}

KindInputsV4 ==
    {<<a, b, c, d>> : a \in KindOctets1, b \in KindOctets2,
                      c \in KindOctets3, d \in KindOctets4}

KindSegments1 == {0, 100, 256, 4095, 4096, 8193, 8194, 9216, 16383, 24320,
                  64512, 65023, 65152, 65215, 65216, 65279, 65280, 65535}
KindSegments2 == {0, 32, 47, 48, 3512, 65435}
KindSegmentsLow == {0, 1, 65535}

KindInputsV6 ==
    {<<a, b, c, 0, e, f, 0, h>> : a \in KindSegments1, b \in KindSegments2,
                                  c \in {0, 1}, e \in {0, 65535},
                                  f \in {0, 65535}, h \in KindSegmentsLow}

KindInputs == KindInputsV4 \cup KindInputsV6

InitKind ==
    /\ KubemIdle
    /\ TfIdle
    /\ RunIdle
    /\ MainIdle
    /\ kind_in \in KindInputs
    /\ kind_out = "none"

\* One call of kind on the address.
Kind ==
    /\ kind_out = "none"
    /\ kind_out' = kind(kind_in)
    /\ UNCHANGED <<kind_in, kubem_vars, tf_vars, run_vars, main_vars>>

NextKind == Kind

SpecKind == InitKind /\ [][NextKind]_vars

is_public(kind_) == kind_ = "Public"

----------------------------------------------------------------------------
(* ndhcp::Manager (manager.rs): the confirmation run over the local        *)
(* addresses (items) and the enabled providers.                            *)

MaxItems == 2           \* local addresses handed to the manager
MaxEnabled == 2         \* providers enabled for a run

\* The local addresses of the machine, in the order of its interfaces: two
\* public ones and a private one.
LocalAddrs == << <<8, 8, 8, 8>>, <<93, 184, 216, 34>>, <<10, 0, 0, 1>> >>

\* Item::new
Item(iface, addr) == [iface |-> iface, addr |-> addr, confirmations |-> 0]

\* list_afinet_netifas: the addresses of up to MaxItems interfaces.
ItemLists ==
    {[i \in 1..Len(ifaces) |-> Item(ifaces[i], LocalAddrs[ifaces[i]])] :
        ifaces \in {SortedSeq(up) : up \in {u \in SUBSET (1..Len(LocalAddrs)) :
                                              Cardinality(u) <= MaxItems}}}

\* The provider lists of a run: OfProviders::setup over the first MaxEnabled
\* variants.
RunProviderLists ==
    {SortedSeq(ps) : ps \in (SUBSET (1..MaxEnabled)) \ {{}}}

\* The trust factors of a run: HttpBin raised to MED, the other providers
\* at their default.
RunCustoms ==
    {[p \in HttpProviders |-> IF p = 1 THEN MED ELSE 0]}

\* verifier::Reason, and Ok(()).
Reasons == {"RemoteUnmatched", "RemoteError"}
CheckResults == {"Ok"} \cup Reasons

NoProvider == 0

Perms(S) ==
    {f \in [1..Cardinality(S) -> S] : \A i, j \in 1..Cardinality(S) : f[i] = f[j] => i = j}

\* An error clears what the item has gathered.
apply_check_result_clearing(confirmations, result_) ==
    IF result_ = "Ok" THEN confirmations ELSE 0

\* A confirmation is counted once more when its result is applied.
apply_check_result_doubling(confirmations, result_) ==
    IF result_ = "Ok" THEN confirmations + 1 ELSE confirmations - 1

\* An error is left counted as a confirmation.
apply_check_result_counting(confirmations, result_) == confirmations

\* Item::apply_check_result: an error takes one confirmation back.
apply_check_result(confirmations, result_) ==
    IF result_ = "Ok" THEN confirmations ELSE confirmations - 1

\* The for_each of check_providers over the joined results, taken in the
\* given order: each result adds one confirmation and is then applied.
RECURSIVE FoldResults(_, _, _)
FoldResults(confirmations, order, results) ==
    IF order = <<>> THEN confirmations
    ELSE FoldResults(apply_check_result(confirmations + 1, results[Head(order)]),
                     Tail(order), results)

\* What apply_check_result logs for the results of an item.
Warnings(i, results) ==
    {[item |-> i, provider |-> p, reason |-> results[p]] :
        p \in {q \in DOMAIN results : results[q] \in Reasons}}

\* Confirmed from half the threshold on.
status_for_half(confirmations, threshold_) ==
    IF confirmations >= threshold_ \div 2 THEN "Confirmed" ELSE "Declined"

\* Confirmed at one confirmation more than the threshold.
status_for_above(confirmations, threshold_) ==
    IF confirmations > threshold_ THEN "Confirmed"
    ELSE IF confirmations >= threshold_ \div 2 THEN "Candidate"
    ELSE "Declined"

\* Candidate above half the threshold only.
status_for_above_half(confirmations, threshold_) ==
    IF confirmations >= threshold_ THEN "Confirmed"
    ELSE IF confirmations > threshold_ \div 2 THEN "Candidate"
    ELSE "Declined"

\* Item::status_for
status_for(confirmations, threshold_) ==
    IF threshold_ < 1 THEN "panicked"
    ELSE IF confirmations >= threshold_ THEN "Confirmed"
    ELSE IF confirmations >= threshold_ \div 2 THEN "Candidate"
    ELSE "Declined"

\* A run that requires all providers whatever it is given.
ClampThresholdAll(threshold_, n) == n

\* A clamp from above only.
ClampThresholdUpperOnly(threshold_, n) ==
    IF threshold_ > n THEN n ELSE threshold_

\* run's clamp of the threshold it is given.
ClampThreshold(threshold_, n) ==
    IF threshold_ <= 0 \/ threshold_ > n THEN n ELSE threshold_

ThresholdArgs == (-1)..(MaxEnabled + 1)

InitRun ==
    /\ KubemIdle
    /\ KindIdle
    /\ MainIdle
    /\ custom \in RunCustoms
    /\ \/ /\ run_pc = "new"
          /\ providers \in RunProviderLists
       \/ /\ run_pc = "args"
          /\ providers = <<>>
    /\ confirmation_number = 0
    /\ tf_pc = "off"
    /\ items \in ItemLists
    /\ threshold = 0
    /\ threshold_arg = 0
    /\ item_pc = [i \in 1..Len(items) |-> "idle"]
    /\ outcome = [i \in 1..Len(items) |-> [p \in Range(providers) |-> "none"]]
    /\ calls = [i \in 1..Len(items) |-> [p \in Range(providers) |-> 0]]
    /\ warnings = {}
    /\ report = <<>>

\* <HttpProvider as VariantArray>::VARIANTS
VARIANTS == SortedSeq(HttpProviders)

\* The --disable lists of a command line: those that leave none but the
\* first MaxEnabled variants enabled.
DisableSets ==
    {disable \in SUBSET HttpProviders : HttpProviders \ disable \subseteq 1..MaxEnabled}

\* OfProviders::setup: enable is what of VARIANTS is not disabled, and the
\* setup fails when nothing is left.
Setup(disable) ==
    /\ run_pc = "args"
    /\ LET enabled(provider) == provider \notin disable
           enable == SelectSeq(VARIANTS, enabled)
       IN /\ providers' = enable
          /\ run_pc' = IF enable = <<>> THEN "setup_failed" ELSE "new"
          /\ outcome' = [i \in 1..Len(items) |-> [p \in Range(enable) |-> "none"]]
          /\ calls' = [i \in 1..Len(items) |-> [p \in Range(enable) |-> 0]]
    /\ UNCHANGED <<items, threshold, threshold_arg, item_pc, warnings, report,
                   custom, confirmation_number, tf_pc, kubem_vars, kind_vars,
                   main_vars>>

\* The setup of the Test command drops the Result of OfProviders::setup and
\* goes on to Manager::new; the setup of the Run command returns the error.
SetupIgnored ==
    /\ run_pc = "setup_failed"
    /\ run_pc' = "new"
    /\ UNCHANGED <<items, threshold, threshold_arg, item_pc, outcome, calls,
                   warnings, report, kubem_vars, tf_vars, kind_vars, main_vars>>

\* A constructor that takes any list of providers.
NewWithItemsUnchecked ==
    /\ run_pc = "new"
    /\ run_pc' = IF items = <<>> THEN "failed" ELSE "created"
    /\ UNCHANGED <<items, threshold, threshold_arg, item_pc, outcome, calls,
                   warnings, report, kubem_vars, tf_vars, kind_vars, main_vars>>

\* Manager::new_with_items: an empty list of items or of providers is refused.
NewWithItems ==
    /\ run_pc = "new"
    /\ run_pc' = IF items = <<>> \/ providers = <<>> THEN "failed" ELSE "created"
    /\ UNCHANGED <<items, threshold, threshold_arg, item_pc, outcome, calls,
                   warnings, report, kubem_vars, tf_vars,
                   kind_vars, main_vars>>

\* Manager::run up to its join: the threshold is clamped and one task is
\* spawned per item.
Run(threshold_) ==
    /\ run_pc = "created"
    /\ threshold_arg' = threshold_
    /\ threshold' = ClampThreshold(threshold_, Len(providers))
    /\ item_pc' = [i \in 1..Len(items) |-> "spawned"]
    /\ run_pc' = "running"
    /\ UNCHANGED <<items, outcome, calls, warnings, report, kubem_vars, tf_vars,
                   kind_vars, main_vars>>

\* Item::check_providers up to its join: an address that is not public gets
\* the error InappropriateAddress and the task is over; for a public one a
\* check_public_ip task is spawned per provider.
CheckProviders(i) ==
    /\ run_pc = "running"
    /\ item_pc[i] = "spawned"
    /\ IF ~is_public(kind(items[i].addr))
       THEN /\ items' = [items EXCEPT ![i].confirmations =
                            apply_check_result(0, "InappropriateAddress")]
            /\ warnings' = warnings \cup
                  {[item |-> i, provider |-> NoProvider, reason |-> "InappropriateAddress"]}
            /\ item_pc' = [item_pc EXCEPT ![i] = "done"]
            /\ UNCHANGED <<outcome, calls>>
       ELSE /\ items' = [items EXCEPT ![i].confirmations = 0]
            /\ outcome' = [outcome EXCEPT ![i] = [p \in Range(providers) |-> "pending"]]
            /\ calls' = [calls EXCEPT ![i] = [p \in Range(providers) |-> calls[i][p] + 1]]
            /\ item_pc' = [item_pc EXCEPT ![i] = "checking"]
            /\ UNCHANGED warnings
    /\ UNCHANGED <<run_pc, threshold, threshold_arg, report, kubem_vars, tf_vars,
                   kind_vars, main_vars>>

\* One task of check_providers ends: verifier::check_public_ip has returned.
CheckPublicIp(i, provider, result_) ==
    /\ run_pc = "running"
    /\ item_pc[i] = "checking"
    /\ outcome[i][provider] = "pending"
    /\ outcome' = [outcome EXCEPT ![i][provider] = result_]
    /\ UNCHANGED <<items, run_pc, threshold, threshold_arg, item_pc, calls,
                   warnings, report, kubem_vars, tf_vars,
                   kind_vars, main_vars>>

\* The join of check_providers is over as soon as one task has ended.
ProvidersJoinedFirst(i) ==
    \E p \in Range(providers) : outcome[i][p] \in CheckResults

\* join_all of check_providers: every task has ended.
ProvidersJoined(i) ==
    \A p \in Range(providers) : outcome[i][p] \in CheckResults

\* The results join_all hands over: those of the tasks that have ended.
Joined(i) == {p \in Range(providers) : outcome[i][p] \in CheckResults}

\* Item::check_providers from its join on: the results are folded in the
\* order in which the tasks ended, which may be any.
JoinProviders(i) ==
    /\ run_pc = "running"
    /\ item_pc[i] = "checking"
    /\ ProvidersJoined(i)
    /\ \E order \in Perms(Joined(i)) :
          items' = [items EXCEPT ![i].confirmations =
                        FoldResults(items[i].confirmations, order, outcome[i])]
    /\ warnings' = warnings \cup Warnings(i, [p \in Joined(i) |-> outcome[i][p]])
    /\ item_pc' = [item_pc EXCEPT ![i] = "done"]
    /\ UNCHANGED <<run_pc, threshold, threshold_arg, outcome, calls, report,
                   kubem_vars, tf_vars, kind_vars, main_vars>>

\* join_all of run: the task of every item has ended.
ItemsJoined ==
    \A i \in 1..Len(items) : item_pc[i] = "done"

\* Manager::run from its join on: every item gets its status, in the order
\* in which the tasks of the items ended, which may be any.
RunReturn ==
    /\ run_pc = "running"
    /\ ItemsJoined
    /\ \E order \in Perms(1..Len(items)) :
          report' = [k \in 1..Len(items) |->
                        <<order[k], status_for(items[order[k]].confirmations, threshold)>>]
    /\ run_pc' = "returned"
    /\ UNCHANGED <<items, threshold, threshold_arg, item_pc, outcome, calls,
                   warnings, kubem_vars, tf_vars, kind_vars, main_vars>>

NextRun ==
    \/ \E disable \in DisableSets : Setup(disable)
    \/ SetupIgnored
    \/ NewWithItems
    \/ \E threshold_ \in ThresholdArgs : Run(threshold_)
    \/ \E i \in 1..Len(items) : CheckProviders(i)
    \/ \E i \in 1..Len(items), provider \in Range(providers), result_ \in CheckResults :
            CheckPublicIp(i, provider, result_)
    \/ \E i \in 1..Len(items) : JoinProviders(i)
    \/ RunReturn

SpecRun == InitRun /\ [][NextRun]_vars

----------------------------------------------------------------------------
(* main_runtime (cli main.rs): the command is spawned as a task that holds *)
(* the sender of the shutdown channel, and main_runtime waits in select!   *)
(* for Ctrl-C or for the channel.  The Run command is the driver of the    *)
(* handle; it has no way to return Ok.                                     *)

Commands == {"Run", "Test"}

\* The state after spawn, main_runtime being at its select!.
InitMain ==
    /\ TfIdle
    /\ RunIdle
    /\ KindIdle
    /\ command \in Commands
    /\ IF command = "Run" THEN InitKubem ELSE KubemIdle
    /\ task = "running"
    /\ shutdown_rx = "open"
    /\ ctrl_c = FALSE
    /\ main_pc = "select"
    /\ exit_code = -1

\* The task of the Run command is polled: the runtime lives as long as
\* main_runtime has not returned.
RunPolled ==
    /\ main_pc = "select"
    /\ task = "running"
    /\ command = "Run"

\* The command returned Err: unwrap_or_else sends the error, the sender is
\* dropped with the task.  Run returns the error at which its loop stopped,
\* Test the error of Manager::new.
TaskErr ==
    /\ main_pc = "select"
    /\ task = "running"
    /\ command = "Run" => pc = "halted"
    /\ task' = "err"
    /\ shutdown_rx' = "err"
    /\ UNCHANGED <<command, ctrl_c, main_pc, exit_code,
                   kubem_vars, tf_vars, run_vars, kind_vars>>

\* The command returned Ok(()): nothing is sent, the sender is dropped.
TaskOk ==
    /\ main_pc = "select"
    /\ task = "running"
    /\ command = "Test"
    /\ task' = "ok"
    /\ shutdown_rx' = "closed"
    /\ UNCHANGED <<command, ctrl_c, main_pc, exit_code,
                   kubem_vars, tf_vars, run_vars, kind_vars>>

\* The command panicked in a build that unwinds: the runtime catches the
\* panic of the task, whose future is dropped, and the sender with it.
TaskPanicUnwind ==
    /\ main_pc = "select"
    /\ task = "running"
    /\ task' = "panicked"
    /\ shutdown_rx' = "closed"
    /\ UNCHANGED <<command, ctrl_c, main_pc, exit_code,
                   kubem_vars, tf_vars, run_vars, kind_vars>>

\* The command panicked in a build that aborts on a panic: the process is
\* gone, main_runtime returns nothing.
TaskPanicAbort ==
    /\ main_pc = "select"
    /\ task = "running"
    /\ task' = "panicked"
    /\ main_pc' = "aborted"
    /\ UNCHANGED <<command, shutdown_rx, ctrl_c, exit_code,
                   kubem_vars, tf_vars, run_vars, kind_vars>>

\* SIGINT is delivered.
CtrlC ==
    /\ main_pc = "select"
    /\ ~ctrl_c
    /\ ctrl_c' = TRUE
    /\ UNCHANGED <<command, task, shutdown_rx, main_pc, exit_code,
                   kubem_vars, tf_vars, run_vars, kind_vars>>

\* select! takes the branch of signal::ctrl_c: err stays None.
SelectCtrlC ==
    /\ main_pc = "select"
    /\ ctrl_c
    /\ main_pc' = "returned"
    /\ exit_code' = 0
    /\ UNCHANGED <<command, task, shutdown_rx, ctrl_c,
                   kubem_vars, tf_vars, run_vars, kind_vars>>

\* select! takes the branch of shutdown_rx.recv: Some(err) when an error is
\* queued, None when the channel is closed and empty; the exit code is
\* err.and_then(|_| Some(1)).unwrap_or(0).
SelectRecv ==
    /\ main_pc = "select"
    /\ shutdown_rx # "open"
    /\ main_pc' = "returned"
    /\ exit_code' = IF shutdown_rx = "err" THEN 1 ELSE 0
    /\ UNCHANGED <<command, task, shutdown_rx, ctrl_c,
                   kubem_vars, tf_vars, run_vars, kind_vars>>

NextMain ==
    \/ RunPolled /\ \E ip \in Ips : StageAddress(ip)
    \/ RunPolled /\ ApplyBegin
    \/ RunPolled /\ \E addr \in Ips : ApplyAddrs(addr)
    \/ RunPolled /\ RemoveUnapplied
    \/ RunPolled /\ ApplyFinish
    \/ TaskErr
    \/ TaskOk
    \/ TaskPanicUnwind
    \/ TaskPanicAbort
    \/ CtrlC
    \/ SelectCtrlC
    \/ SelectRecv

SpecMain == InitMain /\ [][NextMain]_vars

----------------------------------------------------------------------------
(* Properties of the reconciliation (Spec: the handle alone on the node).  *)

\* A step of apply_addrs that sent a patch the API server accepted.
ApplyAddrsPatched ==
    /\ patches' = patches + 1
    /\ external_ips_added' # external_ips_added

\* C1: apply() called with nothing staged while purge mode is off fails
\* before any call to the cluster: no patch is issued, the node's list and
\* the handle's caches are unchanged, and the error ends the cycle.
C1_ApplyRefusedBeforeAnyCall ==
    [][(pc = "idle" /\ pc' # "idle" /\ staged = {} /\ ~remove_unstaged)
         => /\ pc' = "halted"
            /\ result' = "ErrNothingStaged"
            /\ node' = node
            /\ patches' = patches
            /\ external_ips_were' = external_ips_were
            /\ external_ips_added' = external_ips_added
            /\ non_external_ips' = non_external_ips]_vars

\* apply() was refused on a node that carries ExternalIPs, which it keeps.
C1_Witness ==
    /\ result = "ErrNothingStaged"
    /\ pc = "halted"
    /\ ExternalIPs(node) # {}

\* C2: with purge mode off, after apply_addrs has succeeded for every staged
\* address (no dry run), the node's ExternalIPs are exactly those it had
\* when apply() began together with the staged ones, and its other entries
\* are untouched.
C2_ApplyIsUnion ==
    (AppliedAll /\ ~remove_unstaged /\ ~dry_run)
        => /\ ExternalIPs(node) = cycle.E \cup cycle.S
           /\ NonExternal(node) = NonExternal(last_read)

\* C3: with purge mode on and a non-empty staged set, after apply_addrs for
\* every staged address and remove_unapplied (no dry run), the node's
\* ExternalIPs are exactly the staged addresses.
C3_PurgeLeavesStaged ==
    (pc = "purged" /\ cycle.S # {} /\ ~dry_run)
        => ExternalIPs(node) = cycle.S

\* C4: an apply() that repeats the (non-empty) staged set of the apply()
\* before it, the node untouched in between, issues no patch call, and the
\* two together issue at most one.
C4_ApplyIdempotent ==
    (AppliedAll /\ cycle.again /\ cycle.S # {} /\ ~dry_run)
        => /\ patches = 0
           /\ cycle.prevPatches <= 1

C6_DryRunNeverMutates ==
    [][dry_run => node' = node]_vars

\* Under dry run a patch call was made for an address that the node does
\* not carry.
C6_Witness ==
    /\ dry_run
    /\ patches > 0
    /\ result = "Ok"
    /\ \E ip \in external_ips_added : ip \notin ExternalIPs(node)

----------------------------------------------------------------------------
(* Properties of the reconciliation beside other writers (SpecShared).     *)

\* C7 as claimed: with purge mode off, the first apply_addrs of a handle
\* that persists a patch keeps every ExternalIP that is on the node when
\* the patch is sent, those added by other writers since the last refresh
\* included.
C7_AppliesToLiveSet ==
    [][(ApplyAddrsPatched /\ ~dry_run /\ ~remove_unstaged
            /\ external_ips_added = {})
         => ExternalIPs(node) \subseteq ExternalIPs(node')]_vars

\* C7 as amended: with purge mode off, apply_addrs builds the list from the
\* cache of the last refresh: after a persisted patch the node's ExternalIPs
\* are exactly the applied address and the cached foreign ones, so a foreign
\* ExternalIP seen by the last refresh is kept and one written to the node
\* since is not.
C7_AppliesToCache ==
    [][(ApplyAddrsPatched /\ ~dry_run /\ ~remove_unstaged)
         => /\ external_ips_were \subseteq ExternalIPs(node')
            /\ ExternalIPs(node') =
                 (external_ips_added' \ external_ips_added) \cup external_ips_were]_vars

\* In the first cycle, after a write by another actor, a persisted patch of
\* apply_addrs has removed an ExternalIP that was on the node when apply()
\* began.
C7_Witness ==
    /\ cycle.n = 1
    /\ ext_writes = 1
    /\ pc = "applying"
    /\ patches = 1
    /\ ~dry_run
    /\ ~remove_unstaged
    /\ \E ip \in cycle.E : ip \notin ExternalIPs(node)

----------------------------------------------------------------------------
(* Properties of the confirmation number (SpecTF).                         *)

\* C8: with exactly two enabled providers the confirmation number is
\* ceil(total * 2 / 3), total being the sum of the two trust factors.
C8_TwoProvidersCeil ==
    (tf_pc = "done" /\ Len(providers) = 2)
        => confirmation_number = (2 * trust_factor_total(providers) + 2) \div 3

C10_SingleProviderFullWeight ==
    (tf_pc = "done" /\ Len(providers) = 1)
        => confirmation_number = trust_factor(providers[1])

\* A single provider whose trust factor was overridden to HIG.
C10_Witness ==
    /\ tf_pc = "done"
    /\ Len(providers) = 1
    /\ custom[providers[1]] = HIG
    /\ confirmation_number = HIG

\* The arm of the match in calc_confirmation_number a provider list takes.
MatchArm(provs) == IF Len(provs) >= 3 THEN 3 ELSE Len(provs)

\* C11 as claimed: the confirmation number of any non-empty provider list is
\* positive and is at most that of every provider list, of any length, whose
\* trust factors sum to as much or more.
C11_MonotoneInTotal ==
    (tf_pc = "done")
        => /\ confirmation_number > 0
           /\ \A other \in EnabledLists :
                 trust_factor_total(providers) <= trust_factor_total(other)
                     => confirmation_number <= calc_confirmation_number(other)

\* C11 as amended: the confirmation number is positive and is at most that of
\* every provider list that takes the same arm of the match (one provider,
\* two, three or more) and whose trust factors sum to as much or more.
C11_MonotoneWithinArm ==
    (tf_pc = "done")
        => /\ confirmation_number > 0
           /\ \A other \in EnabledLists :
                 (/\ MatchArm(other) = MatchArm(providers)
                  /\ trust_factor_total(providers) <= trust_factor_total(other))
                     => confirmation_number <= calc_confirmation_number(other)

\* Three providers or more, and a longer list of a larger total that needs a
\* strictly larger confirmation number.
C11_Witness ==
    /\ tf_pc = "done"
    /\ Len(providers) >= 3
    /\ \E other \in EnabledLists :
          /\ Len(other) > Len(providers)
          /\ trust_factor_total(providers) < trust_factor_total(other)
          /\ confirmation_number < calc_confirmation_number(other)

----------------------------------------------------------------------------
(* Properties of the confirmation run (SpecRun).                           *)

\* The providers whose check of item i returned Ok.
Confirming(i) == {p \in Range(providers) : outcome[i][p] = "Ok"}

\* The trust factors of a set of providers, summed.
TrustOf(ps) == trust_factor_total(SortedSeq(ps))

\* The local addresses that the table of kind_ipv4 leaves Public.
PublicAddrs == {addr \in Range(LocalAddrs) : kind_ipv4(addr) = "Public"}

PublicItems == {i \in 1..Len(items) : items[i].addr \in PublicAddrs}

\* C12: when the run has returned, the tally of every candidate that was
\* probed is the sum of the trust factors of the providers that confirmed it.
C12_TallyIsWeightSum ==
    LET public == PublicItems
    IN
        (run_pc = "returned")
            => \A i \in public : items[i].confirmations = TrustOf(Confirming(i))

C14_ReportPartition ==
    (run_pc = "returned")
        => /\ Len(report) = Len(items)
           /\ \A i \in 1..Len(items) :
                 Cardinality({k \in 1..Len(report) : report[k][1] = i}) = 1
           /\ threshold >= 1
           /\ \A k \in 1..Len(report) :
                 report[k][2] = "Confirmed"
                     => items[report[k][1]].confirmations >= threshold

\* A report with a Confirmed candidate and one that is not.
C14_Witness ==
    LET public == PublicItems
    IN
        /\ run_pc = "returned"
        /\ \E k, l \in 1..Len(report) :
              /\ report[k][2] = "Confirmed"
              /\ report[l][2] # "Confirmed"
              /\ report[l][1] \in public

\* C15: a check that fails (the provider in error, or its answer another
\* address) does not end the run: the failure is logged, the tally of the
\* candidate counts exactly the providers that confirmed it, and a run that
\* has not returned can always go on.
C15_FailureIsNotFatal ==
    LET public == PublicItems
    IN
        /\ \A i \in public :
              item_pc[i] = "done"
                  => /\ items[i].confirmations = Cardinality(Confirming(i))
                     /\ \A p \in Range(providers) :
                           outcome[i][p] \in Reasons
                               => [item |-> i, provider |-> p, reason |-> outcome[i][p]]
                                      \in warnings
        /\ run_pc = "running"
              => \/ \E i \in 1..Len(items) : item_pc[i] = "spawned"
                 \/ \E i \in 1..Len(items) :
                       /\ item_pc[i] = "checking"
                       /\ \A p \in Range(providers) : outcome[i][p] \in CheckResults \cup {"pending"}
                 \/ \A i \in 1..Len(items) : item_pc[i] = "done"
        /\ run_pc \in {"running", "returned"} => Len(items) > 0

\* The run returned with a candidate that one provider failed on, in error,
\* and another confirmed: its tally is 1.
C15_Witness ==
    LET public == PublicItems
    IN
        /\ run_pc = "returned"
        /\ \E i \in public :
              /\ \E p \in Range(providers) : outcome[i][p] = "RemoteError"
              /\ Cardinality(Confirming(i)) = 1
              /\ items[i].confirmations = 1

\* C16: the tally of a candidate is folded only when every check spawned
\* for it has ended, whatever the results of the first ones, and the
\* statuses are decided and the report returned only when the task of every
\* candidate has ended.
C16_FullBarrier ==
    LET public == PublicItems
    IN
        /\ \A i \in public :
              item_pc[i] = "done"
                  => \A p \in Range(providers) : outcome[i][p] \in CheckResults
        /\ \A i \in 1..Len(items) :
              item_pc[i] # "done" => /\ report = <<>>
                                     /\ run_pc # "returned"

\* One candidate is done, its first check having failed, while a check of
\* another candidate is pending: nothing is reported yet.
C16_Witness ==
    LET public == PublicItems
    IN
        /\ run_pc = "running"
        /\ report = <<>>
        /\ \E i, j \in public :
              /\ item_pc[i] = "done"
              /\ outcome[i][providers[1]] \in Reasons
              /\ item_pc[j] = "checking"
              /\ \E p \in Range(providers) : outcome[j][p] = "pending"

\* C17: the tally of a candidate is what the fold of its results gives in
\* every order of the providers, and its reported status is the status of
\* that tally: the order in which the checks end does not show.
C17_OrderIndependent ==
    LET public == PublicItems
        orders == Perms(Range(providers))
    IN
        /\ \A i \in public :
              item_pc[i] = "done"
                  => \A order \in orders :
                        FoldResults(0, order, outcome[i]) = items[i].confirmations
        /\ \A k \in 1..Len(report) :
              report[k][1] \in public
                  => \A order \in orders :
                        report[k][2] =
                            status_for(FoldResults(0, order, outcome[report[k][1]]), threshold)

\* Two checks of a candidate ended differently, one Ok and one not.
C17_Witness ==
    LET public == PublicItems
    IN
        /\ run_pc = "returned"
        /\ Len(providers) = 2
        /\ \E i \in public :
              /\ outcome[i][providers[1]] = "Ok"
              /\ outcome[i][providers[2]] \in Reasons
        /\ \E j \in public :
              /\ outcome[j][providers[1]] \in Reasons
              /\ outcome[j][providers[2]] = "Ok"

\* C18 as claimed: a provider is called at most once per candidate and its
\* confirmation goes to the tally of at most one candidate, so that no tally
\* exceeds the trust factors of the enabled providers summed.
C18_OneVotePerObserver ==
    /\ \A i \in 1..Len(items), p \in Range(providers) : calls[i][p] <= 1
    /\ \A p \in Range(providers) :
          Cardinality({i \in 1..Len(items) : p \in Confirming(i)}) <= 1
    /\ \A i \in 1..Len(items) :
          items[i].confirmations <= trust_factor_total(providers)

\* C18 as amended: a provider is called at most once per candidate and adds
\* at most one confirmation to the tally of that candidate, while it may
\* confirm several candidates; no tally exceeds the number of the enabled
\* providers, nor their trust factors summed.
C18_OneVotePerCandidate ==
    /\ \A i \in 1..Len(items), p \in Range(providers) : calls[i][p] <= 1
    /\ \A i \in 1..Len(items) :
          /\ items[i].confirmations <= Cardinality(Confirming(i))
          /\ items[i].confirmations <= Len(providers)
          /\ items[i].confirmations <= trust_factor_total(providers)

\* One provider has confirmed two candidates, and each has it in its tally.
C18_Witness ==
    LET public == PublicItems
    IN
        /\ run_pc = "returned"
        /\ \E p \in Range(providers) :
              \E i, j \in public :
                  /\ i # j
                  /\ p \in Confirming(i)
                  /\ p \in Confirming(j)
                  /\ items[i].confirmations >= 1
                  /\ items[j].confirmations >= 1

\* C19: for a candidate whose address is not public no check is spawned and
\* no provider is called; the error InappropriateAddress is logged for it,
\* no confirmation is added to its tally and it is never Confirmed.
C19_NonPublicShortCircuit ==
    LET public == PublicItems
    IN
        \A i \in (1..Len(items)) \ public :
            /\ \A p \in Range(providers) : calls[i][p] = 0 /\ outcome[i][p] = "none"
            /\ items[i].confirmations <= 0
            /\ item_pc[i] = "done"
                  => /\ [item |-> i, provider |-> NoProvider,
                         reason |-> "InappropriateAddress"] \in warnings
                     /\ items[i].confirmations = -1
            /\ \A k \in 1..Len(report) : report[k][1] = i => report[k][2] = "Declined"

\* The run returned with a private address among the candidates, beside a
\* public one that the providers were called for.
C19_Witness ==
    LET public == PublicItems
    IN
        /\ run_pc = "returned"
        /\ \E i \in 1..Len(items) :
              /\ kind_ipv4(items[i].addr) = "Private"
              /\ items[i].confirmations = -1
        /\ \E j \in public, p \in Range(providers) : calls[j][p] = 1

    ------------------------------------------------------------------------

----
(* Properties of refresh beside other writers (SpecShared).                *)

\* C20: after every refresh, the one of Handle::new included, the applied set
\* holds the addresses it held before that are ExternalIPs of the node as
\* read, no others; the foreign set holds the node's other ExternalIPs; the
\* two are disjoint and together are the parsed ExternalIPs of the node.
C20_RefreshPartitions ==
    /\ external_ips_added = {}
    /\ external_ips_were = ExternalIPs(node)
    /\ [][(pc # "idle" /\ pc' = "idle")
            => /\ external_ips_added' = external_ips_added \cap ExternalIPs(node)
               /\ external_ips_added' \subseteq ExternalIPs(node')
               /\ external_ips_were' = ExternalIPs(node') \ external_ips_added'
               /\ external_ips_added' \cap external_ips_were' = {}
               /\ external_ips_added' \cup external_ips_were' = ExternalIPs(node')]_vars

\* Under dry run an apply() has sent a patch for an address, and the refresh
\* that ended it has dropped the address from the applied set, the node's
\* own ExternalIP being recorded as foreign.
C20_Witness ==
    /\ pc = "idle"
    /\ result = "Ok"
    /\ cycle.n >= 1
    /\ dry_run
    /\ patches > 0
    /\ external_ips_added = {}
    /\ external_ips_were # {}
    /\ external_ips_were = ExternalIPs(node)

----------------------------------------------------------------------------
(* Properties of the purge, of errors and of the report of apply() (Spec,  *)
(* SpecReport).                                                            *)

C22_FirstPurgeStripsAll ==
    [][(pc = "applying" /\ cycle.n = 1 /\ cycle.S = {} /\ ~dry_run
            /\ pc' # pc /\ result' = "Ok")
        => /\ pc' = "purged"
           /\ ExternalIPs(node') = {}
           /\ NonExternal(node') = NonExternal(node)]_vars

\* The first apply() had nothing staged, the node had foreign ExternalIPs,
\* and after the purge it has none.
C22_Witness ==
    /\ pc = "purged"
    /\ ~dry_run
    /\ cycle.n = 1
    /\ cycle.S = {}
    /\ cycle.E # {}
    /\ Range(removed) = cycle.E
    /\ ExternalIPs(node) = {}

\* C23: a patch that fails with a cluster error ends the cycle: the node and
\* the cache are as before the call (the address is not recorded as
\* applied), the error is the result, and no step follows it.
C23_ClusterErrorIsFatal ==
    /\ [][(patches' = patches + 1 /\ result' = "ErrCluster")
            => /\ pc' = "halted"
               /\ node' = node
               /\ external_ips_added' = external_ips_added
               /\ external_ips_were' = external_ips_were
               /\ non_external_ips' = non_external_ips
               /\ todo' = todo]_vars
    /\ [][pc = "halted" => FALSE]_vars

\* apply_addrs has failed on an address: the cycle is halted and the address
\* is neither recorded as applied nor on the node.
C23_Witness ==
    /\ pc = "halted"
    /\ result = "ErrCluster"
    /\ patches > 0
    /\ \E addr \in todo :
          /\ addr \notin external_ips_added
          /\ addr \notin ExternalIPs(node)

\* C24: the step that ends a successful apply() leaves nothing staged and
\* the cache refreshed from the node, and the next apply() works on exactly
\* the addresses staged since.
C24_ApplyClearsStaged ==
    /\ [][(pc \in {"applying", "purged"} /\ pc' = "idle")
            => /\ staged' = {}
               /\ last_read' = node'
               /\ external_ips_added' \cup external_ips_were' = ExternalIPs(node')]_vars
    /\ [][(pc = "idle" /\ pc' = "applying")
            => /\ todo' = staged
               /\ cycle'.S = staged]_vars

\* A second apply() is at work with nothing staged although the first one
\* had an address staged.
C24_Witness ==
    /\ pc = "applying"
    /\ cycle.n = 2
    /\ cycle.S = {}
    /\ todo = {}
    /\ external_ips_added # {}

----------------------------------------------------------------------------
(* Properties of the threshold of a run (SpecRun).                         *)

\* C27 (as claimed): when the run has returned, a candidate is Confirmed
\* exactly when its tally is at least the positive threshold the caller gave.
C27_OverrideUsedExactly ==
    (run_pc = "returned" /\ threshold_arg >= 1)
        => \A k \in 1..Len(report) :
              report[k][2] = "Confirmed"
                  <=> items[report[k][1]].confirmations >= threshold_arg

\* C27 (amended): a threshold given within 1..number of providers is the one
\* the run decides against; a positive one above the number of providers is
\* replaced by that number, and a candidate is Confirmed exactly when its
\* tally is at least the value so obtained.
C27_OverrideUsedWithinRange ==
    LET n == Len(providers)
        used == IF threshold_arg \in 1..n THEN threshold_arg ELSE n
    IN
        (run_pc = "returned" /\ threshold_arg >= 1)
            => /\ threshold = used
               /\ \A k \in 1..Len(report) :
                     report[k][2] = "Confirmed"
                         <=> items[report[k][1]].confirmations >= used

\* Two providers and the threshold 1 given: a candidate that one provider
\* confirmed and the other did not is Confirmed.
C27_Witness ==
    /\ run_pc = "returned"
    /\ Len(providers) = 2
    /\ threshold_arg = 1
    /\ \E k \in 1..Len(report) :
          /\ items[report[k][1]].confirmations = 1
          /\ report[k][2] = "Confirmed"

\* C28: once run has taken its threshold, the threshold in use is the number
\* of providers when the one given was negative or above that number, and
\* the one given when that was within 1..number of providers.
C28_ThresholdNormalized ==
    LET n == Len(providers)
    IN
        (run_pc \in {"running", "returned"})
            => /\ (threshold_arg < 0 \/ threshold_arg > n) => threshold = n
               /\ threshold_arg \in 1..n => threshold = threshold_arg
               /\ threshold \in 1..n

\* Two providers and the threshold -1 given: the threshold in use is 2 and a
\* candidate with one confirmation is not Confirmed.
C28_Witness ==
    /\ run_pc = "returned"
    /\ Len(providers) = 2
    /\ threshold_arg = -1
    /\ threshold = 2
    /\ \E k \in 1..Len(report) :
          /\ items[report[k][1]].confirmations = 1
          /\ report[k][2] # "Confirmed"

----------------------------------------------------------------------------
(* Properties of the trust factors set by the user (SpecTF).               *)

\* C29: a set_trust_factor with a factor outside {1, 2, 3} fails and leaves
\* the overrides as they were, an override changes to a factor of {1, 2, 3}
\* only, and the trust factor of every provider is always in {1, 2, 3}.
C29_InvalidWeightRejected ==
    /\ [](\A p \in HttpProviders : trust_factor(p) \in {1, 2, 3})
    /\ [](\A p \in HttpProviders : custom[p] \in {0, 1, 2, 3})
    /\ [][tf_pc' = "panicked" => custom' = custom]_vars
    /\ [][custom' # custom => tf_pc' = "ready"]_vars

\* A set_trust_factor has failed after another one had set an override, and
\* the override is still there.
C29_Witness ==
    /\ tf_pc = "panicked"
    /\ \E p \in HttpProviders : custom[p] = HIG /\ trust_factor(p) = HIG

\* C30: the trust factor of a provider is its override when one is set and
\* the default LOW otherwise; a set_trust_factor that changes the override of
\* a provider makes the new value its trust factor and leaves the trust factor
\* of every other provider as it was.
C30_OverrideElseDefault ==
    /\ [](\A p \in HttpProviders :
            trust_factor(p) = IF custom[p] \in {1, 2, 3} THEN custom[p] ELSE 1)
    /\ [][\A p \in HttpProviders :
            custom'[p] # custom[p]
                => /\ trust_factor(p)' = custom'[p]
                   /\ \A q \in HttpProviders \ {p} :
                         trust_factor(q)' = trust_factor(q)]_vars

\* One provider has the override HIG, another the override MED, a third has
\* none and the default LOW.
C30_Witness ==
    /\ tf_pc = "ready"
    /\ \E p, q, r \in HttpProviders :
          /\ custom[p] = HIG /\ trust_factor(p) = HIG
          /\ custom[q] = MED /\ trust_factor(q) = MED
          /\ custom[r] = 0 /\ trust_factor(r) = LOW

----------------------------------------------------------------------------
(* Properties of the statuses of unconfirmed candidates (SpecRun).         *)

\* C36: when the run has returned, every candidate whose address is not
\* public has the tally -1 and the status Declined, whatever the threshold
\* and the providers.
C36_NonPublicDeclined ==
    (run_pc = "returned")
        => \A k \in 1..Len(report) :
              items[report[k][1]].addr \notin PublicAddrs
                  => /\ items[report[k][1]].confirmations = -1
                     /\ items[report[k][1]].confirmations < threshold \div 2
                     /\ report[k][2] = "Declined"

\* With the threshold 1 a candidate that is not public is Declined while a
\* public one that no provider confirmed is not.
C36_Witness ==
    /\ run_pc = "returned"
    /\ threshold = 1
    /\ \E k, l \in 1..Len(report) :
          /\ items[report[k][1]].addr \notin PublicAddrs
          /\ report[k][2] = "Declined"
          /\ items[report[l][1]].addr \in PublicAddrs
          /\ items[report[l][1]].confirmations = 0
          /\ report[l][2] = "Candidate"

\* C37 (as claimed): when the run has returned, every public candidate that
\* no provider confirmed has the status Declined.
C37_UnconfirmedDeclined ==
    LET public == PublicItems
    IN
        (run_pc = "returned")
            => \A k \in 1..Len(report) :
                  (report[k][1] \in public /\ Confirming(report[k][1]) = {})
                      => report[k][2] = "Declined"

\* C37 (amended): when the run has returned, a public candidate that no
\* provider confirmed has the tally 0, is never Confirmed, is Declined when
\* the threshold in use is 2 or more and Candidate when it is 1.
C37_UnconfirmedNeverConfirmed ==
    LET public == PublicItems
    IN
        (run_pc = "returned")
            => \A k \in 1..Len(report) :
                  (report[k][1] \in public /\ Confirming(report[k][1]) = {})
                      => /\ items[report[k][1]].confirmations = 0
                         /\ report[k][2] # "Confirmed"
                         /\ threshold >= 2 => report[k][2] = "Declined"
                         /\ threshold = 1 => report[k][2] = "Candidate"

\* Two providers, both failed for a public candidate, the threshold in use
\* is 2 and the candidate is Declined.
C37_Witness ==
    LET public == PublicItems
    IN
        /\ run_pc = "returned"
        /\ Len(providers) = 2
        /\ threshold = 2
        /\ \E k \in 1..Len(report) :
              /\ report[k][1] \in public
              /\ \A p \in Range(providers) : outcome[report[k][1]][p] \in Reasons
              /\ report[k][2] = "Declined"

----------------------------------------------------------------------------
(* Properties of the Handle called directly (SpecHandle).                  *)

\* C33: outside dry run, as long as every call on the handle was a
\* successful apply_addrs or refresh, every address apply_addrs has returned
\* Ok for is an ExternalIP of the node.
C33_AppliedStayApplied ==
    (~dry_run /\ handle_log.clean)
        => handle_log.applied \subseteq ExternalIPs(node)

\* C34: outside dry run, a successful apply_addrs leaves off the node every
\* other address that the last remove_unapplied took off it with no refresh
\* since, and puts its own address on the node when that was among them.
C34_RemovedStayRemoved ==
    [][(handle_log'.n = handle_log.n + 1 /\ handle_log'.op = "apply_addrs"
            /\ result' = "Ok" /\ ~dry_run)
        => /\ (handle_log.purged \ {handle_log'.arg}) \cap ExternalIPs(node') = {}
           /\ handle_log'.arg \in handle_log.purged
                => handle_log'.arg \in ExternalIPs(node')]_vars

\* C35: in every state of the handle the applied set and the foreign set
\* have no address in common.
C35_AppliedForeignDisjoint ==
    external_ips_added \cap external_ips_were = {}

\* After an apply_addrs and a refresh the handle holds an applied address
\* and a foreign one.
C35_Witness ==
    /\ handle_log.op = "refresh"
    /\ result = "Ok"
    /\ handle_log.applied # {}
    /\ external_ips_added # {}
    /\ external_ips_were # {}

----------------------------------------------------------------------------
(* Properties of a cycle without confirmed addresses (Spec).               *)

\* C38 (as claimed): with purge mode off, the apply() of a cycle in which no
\* address was staged leaves the node as it is and does not halt the driver.
C38_EmptyCycleGoesOn ==
    [][(pc = "idle" /\ staged = {} /\ ~remove_unstaged /\ pc' # pc)
        => /\ node' = node
           /\ pc' # "halted"]_vars

\* C38 (amended): with purge mode off, the apply() of a cycle in which no
\* address was staged leaves the node as it is and sends no patch, fails
\* with the error of the empty staged set, and the driver halts: no step
\* follows.
C38_EmptyCycleHalts ==
    /\ [][(pc = "idle" /\ staged = {} /\ ~remove_unstaged /\ pc' # pc)
            => /\ node' = node
               /\ patches' = patches
               /\ result' = "ErrNothingStaged"
               /\ pc' = "halted"]_vars
    /\ [][(pc = "halted" /\ result = "ErrNothingStaged") => FALSE]_vars

\* After a cycle that applied an address, a cycle with nothing staged has
\* halted the driver, the address still on the node.
C38_Witness ==
    /\ pc = "halted"
    /\ result = "ErrNothingStaged"
    /\ ~remove_unstaged
    /\ ~dry_run
    /\ cycle.n = 1
    /\ cycle.S # {}
    /\ cycle.S \cap ExternalIPs(node) # {}
    /\ staged = {}

----------------------------------------------------------------------------
(* Properties of address::kind (SpecKind).                                 *)

\* C32: kind answers for every IPv4 and IPv6 address with one of the five
\* kinds: the kind of the first range of the address family's table that
\* contains the address, Public when no range does.  An address of
\* 127.0.0.0/8, the address ::1, an address of 224.0.0.0/4 and an address
\* of ff00::/8 are never answered with Public.
C32_KindFirstRange ==
    kind_out # "none" =>
        LET v4 == Len(kind_in) = 4
            table == IF v4 THEN RESERVED_RAW ELSE RESERVED_RAW_V6
            hits == {n \in 1..Len(table) :
                        IF v4 THEN contains(table[n], kind_in)
                        ELSE contains_v6(table[n], kind_in)}
            loopback == IF v4 THEN kind_in[1] = 127
                        ELSE kind_in = <<0, 0, 0, 0, 0, 0, 0, 1>>
            multicast == IF v4 THEN kind_in[1] \in 224..239
                         ELSE kind_in[1] \in 65280..65535
        IN /\ kind_out \in Kinds
           /\ \/ /\ hits = {}
                 /\ kind_out = "Public"
              \/ \E n \in hits :
                    /\ \A m \in hits : n <= m
                    /\ kind_out = table[n].kind
           /\ (loopback \/ multicast) => kind_out # "Public"

\* 233.252.0.1 lies in 224.0.0.0/4 and in 233.252.0.0/24: the earlier range
\* has answered, Multicast.
C32_Witness ==
    /\ kind_in = <<233, 252, 0, 1>>
    /\ kind_out = "Multicast"

----------------------------------------------------------------------------
(* Properties of main_runtime (SpecMain).                                  *)

\* C39: when main_runtime has returned, the exit code is not 0 if the
\* command task has ended with an error or a panic (and no Ctrl-C came),
\* and it is 0 only if Ctrl-C came or the command completed with Ok.
C39_AbnormalEndNonZero ==
    main_pc = "returned" =>
        /\ (task \in {"err", "panicked"} /\ ~ctrl_c) => exit_code # 0
        /\ exit_code = 0 => (ctrl_c \/ task = "ok")

----------------------------------------------------------------------------
(* Properties of the provider list of a run (SpecRun).                     *)

\* C31: an empty list of enabled providers gets no further than the
\* constructor.  OfProviders::setup fails exactly when every provider is
\* disabled; new_with_items fails on an empty list of providers; a Manager
\* that exists has a provider, so run clamps its threshold into
\* 1..(number of providers); and where the setup or the constructor has
\* failed, no provider has been called.
C31_EmptyProvidersRejected ==
    /\ [](run_pc \in {"created", "running", "returned"} => providers # <<>>)
    /\ [](run_pc \in {"running", "returned"}
            => threshold \in 1..Len(providers))
    /\ [](threshold # 0 => providers # <<>>)
    /\ [](run_pc \in {"setup_failed", "failed"}
            => \A i \in DOMAIN calls : \A p \in DOMAIN calls[i] :
                    calls[i][p] = 0)
    /\ [][(run_pc = "args" /\ run_pc' # run_pc)
            => (run_pc' = "setup_failed" <=> providers' = <<>>)]_vars
    /\ [][(run_pc = "new" /\ providers = <<>> /\ run_pc' # run_pc)
            => run_pc' = "failed"]_vars
    /\ [][(run_pc \in {"failed", "setup_failed"} /\ providers = <<>>)
            => (run_pc' \in {"new", "failed", "setup_failed"}
                /\ providers' = <<>>)]_vars

\* Every provider was disabled, the failed setup was passed over, and the
\* constructor has refused the empty list although there are addresses.
C31_Witness ==
    /\ run_pc = "failed"
    /\ providers = <<>>
    /\ items # <<>>

====
